---- MODULE Spec2Model ----
(***************************************************************************)
(* flashinfer/page.py: append_paged_kv_cache and the lazily initialised    *)
(* kernel-module handle.                                                   *)
(*                                                                         *)
(* The Python entry point (layout check, unpacking of the cache, argument  *)
(* binding, get_page_module) is modelled from page.py.  The native kernel  *)
(* the entry point dispatches to (page.cu) and the helpers of utils.py are *)
(* modelled from the specification, sections 3, 4 and 7.                   *)
(*                                                                         *)
(* Arrays are functions over 0..n-1, as in the source.                     *)
(***************************************************************************)
EXTENDS Integers, FiniteSets, TLC

VARIABLES
    pc,               \* position of the caller inside append_paged_kv_cache
    args,             \* the arguments of the call (read-only inputs)
    result,           \* outcome of the call
    unpacked,         \* the cache has been handed to _unpack_paged_kv_cache
    paged_k_cache,    \* key cache: page -> flat element offset -> value
    paged_v_cache,    \* value cache, same shape
    pending,          \* copy workers <<buffer, i, j>> that have not run yet
    written,          \* log of the destination writes made so far
    page_module,      \* the module global _page_module
    has_prebuilt_ops, \* flashinfer.jit.has_prebuilt_ops
    loads,            \* how many times a backend was selected / loaded
    returned,         \* the handles get_page_module has returned
    tpc,              \* position of each thread inside get_page_module
    tmp,              \* per thread: the handle just loaded, not yet stored
    calls             \* per thread: direct calls of get_page_module made

vars == <<pc, args, result, unpacked, paged_k_cache, paged_v_cache,
          pending, written, page_module, has_prebuilt_ops, loads, returned,
          tpc, tmp, calls>>

appendVars == <<pc, args, result, unpacked, paged_k_cache,
                paged_v_cache, pending, written>>

-----------------------------------------------------------------------------
(* Bounds of the model *)

BatchSize == 2
PageSize == 2
NumKVHeads == 2
HeadDim == 1
NumThreads == 2
MaxCalls == 2

MaxNumPages == BatchSize + 1
MaxNnz == BatchSize

Pages == 0 .. MaxNumPages - 1
Seqs == 0 .. BatchSize - 1
Heads == 0 .. NumKVHeads - 1
Dims == 0 .. HeadDim - 1
PageElems == PageSize * NumKVHeads * HeadDim
Threads == 1 .. NumThreads
Caller == 1

None == "None"

-----------------------------------------------------------------------------
(* Layouts *)

LayoutTokens == {"NHD", "HND", "NDH"}

\* utils._check_kv_layout: the token is one of the two recognised layouts
CheckKvLayout(token) == token \in {"NHD", "HND"}

\* utils.TensorLayout[token].value
TensorLayoutValue(token) == IF token = "NHD" THEN 0 ELSE 1

\* element offset inside a page of shape [page_size, num_kv_heads, head_dim]
NHDOffset(slot, h, d) == (slot * NumKVHeads + h) * HeadDim + d

\* element offset inside a page of shape [num_kv_heads, page_size, head_dim]
HNDOffset(slot, h, d) == (h * PageSize + slot) * HeadDim + d

\* reading the cache back through the shape documented for the layout token
ReadBack(cache, token, page, slot) ==
    [h \in Heads |-> [d \in Dims |->
        cache[page][IF token = "NHD" THEN NHDOffset(slot, h, d)
                                     ELSE HNDOffset(slot, h, d)]]]

-----------------------------------------------------------------------------
(* The ragged batch and the page table *)

\* append_key[r, h, d]: every element of the batch has its own value
AppendKey(nnz) ==
    [r \in 0 .. nnz - 1 |-> [h \in Heads |-> [d \in Dims |->
        1 + (r * NumKVHeads + h) * HeadDim + d]]]

\* append_value[r, h, d]
AppendValue(nnz) ==
    [r \in 0 .. nnz - 1 |-> [h \in Heads |-> [d \in Dims |->
        0 - (1 + (r * NumKVHeads + h) * HeadDim + d)]]]

Numel(arr) == Cardinality(DOMAIN arr)

\* an offsets array: starts at 0 and is non-decreasing
WellFormedIndptr(indptr) ==
    /\ indptr[0] = 0
    /\ \A i \in Seqs : indptr[i] <= indptr[i + 1]

\* the cache before any append: no slot holds a row
EmptyCache == [p \in Pages |-> [e \in 0 .. PageElems - 1 |-> 0]]

Arange(n) == [k \in 0 .. n - 1 |-> k]

\* page tables a caller may pass for n listed pages: the last n pages in
\* descending order, and a table that lists pages twice
KvIndicesKinds == {"last", "shared"}

KvIndices(kind, n) ==
    [k \in 0 .. n - 1 |->
        IF kind = "last" THEN MaxNumPages - 1 - k ELSE k \div 2]

\* last-page occupancies a caller may pass: none, one slot, a full page, and
\* one more than a page holds
LastPageLens == {0, 1, PageSize, PageSize + 1}

NondecreasingIndptrs(max) ==
    { f \in [0 .. BatchSize -> 0 .. max] : WellFormedIndptr(f) }

\* kv_indptr arrays that give every sequence at least one page
AllocatedKvIndptrs ==
    { p \in NondecreasingIndptrs(MaxNumPages) : \A i \in Seqs : p[i] < p[i + 1] }

Batch(a, nnz, p, x, l, token) ==
    [ append_key       |-> AppendKey(nnz),
      append_value     |-> AppendValue(nnz),
      append_indptr    |-> a,
      kv_indices       |-> x,
      kv_indptr        |-> p,
      kv_last_page_len |-> l,
      kv_layout        |-> token ]

\* one page per sequence, full, fresh
NominalKvIndptr == [i \in 0 .. BatchSize |-> i]
NominalLast == [i \in Seqs |-> PageSize]

NoArgs == Batch([i \in 0 .. BatchSize |-> 0], 0,
                [i \in 0 .. BatchSize |-> 0], Arange(0), NominalLast, "NHD")

-----------------------------------------------------------------------------
(* The kernel's addressing, on the parameters k it was invoked with;      *)
(* k.page_size is the page size it reads off the shape of the cache       *)

NumPagesOf(k, i) == k.kv_indptr[i + 1] - k.kv_indptr[i]

Cap(k, i) == (NumPagesOf(k, i) - 1) * k.page_size + k.kv_last_page_len[i]

AppendLen(k, i) == k.append_indptr[i + 1] - k.append_indptr[i]

\* StartPos one position too far
StartPosOffByOne(k, i) == Cap(k, i) - AppendLen(k, i) + 1

StartPos(k, i) == Cap(k, i) - AppendLen(k, i)

Pos(k, i, j) == StartPos(k, i) + j

PageSlotIndex(k, i, j) == Pos(k, i, j) \div k.page_size

\* InPageOffset with the quotient taken for the remainder
InPageOffsetQuotient(k, i, j) == Pos(k, i, j) \div k.page_size

InPageOffset(k, i, j) == Pos(k, i, j) % k.page_size

PhysicalPage(k, i, j) == k.kv_indices[k.kv_indptr[i] + PageSlotIndex(k, i, j)]

\* an offsets array is malformed, or its last element is not the length of
\* the data it delimits
MalformedIndex(k) ==
    \/ ~WellFormedIndptr(k.append_indptr)
    \/ ~WellFormedIndptr(k.kv_indptr)
    \/ k.append_indptr[BatchSize] # Numel(k.append_key)
    \/ k.append_indptr[BatchSize] # Numel(k.append_value)
    \/ k.kv_indptr[BatchSize] # Numel(k.kv_indices)

CapacityExceeded(k) == \E i \in Seqs : AppendLen(k, i) > Cap(k, i)

\* the validation made before any destination write
Preflight(k) ==
    IF MalformedIndex(k) THEN "MalformedIndex"
    ELSE IF CapacityExceeded(k) THEN "CapacityExceeded"
    ELSE "none"

\* the defensive check a worker makes on its own position
IndexOutOfRangeAt(k, i, j) ==
    \/ PageSlotIndex(k, i, j) < 0
    \/ PageSlotIndex(k, i, j) >= NumPagesOf(k, i)

\* the position is out of range, or the page listed for it is no page of
\* the cache
IndexOutOfRange(k, i, j) ==
    \/ IndexOutOfRangeAt(k, i, j)
    \/ PhysicalPage(k, i, j) \notin Pages

Workers(k) ==
    { <<c, i, j>> \in {"k", "v"} \X Seqs \X (0 .. MaxNnz - 1) :
        j < AppendLen(k, i) }

SourceRow(k, c, i, j) ==
    IF c = "k" THEN k.append_key[k.append_indptr[i] + j]
               ELSE k.append_value[k.append_indptr[i] + j]

\* the (slot, head, dim) the kernel finds at element offset e of a page
KernelSlotAt(layout, e) ==
    IF layout = 0 THEN e \div (NumKVHeads * HeadDim)
                  ELSE (e \div HeadDim) % PageSize
KernelHeadAt(layout, e) ==
    IF layout = 0 THEN (e \div HeadDim) % NumKVHeads
                  ELSE e \div (PageSize * HeadDim)
KernelDimAt(e) == e % HeadDim

\* cache with the row written at (page, slot) under the kernel's layout
WriteRow(cache, layout, page, slot, row) ==
    [cache EXCEPT ![page] =
        [e \in 0 .. PageElems - 1 |->
            IF KernelSlotAt(layout, e) = slot
            THEN row[KernelHeadAt(layout, e)][KernelDimAt(e)]
            ELSE @[e]]]

\* WorkerWrite that takes the next free slot of the page, counted from the
\* workers still to run, instead of the slot computed for the row
WorkerWriteNextFree(cache, k, c, i, j) ==
    WriteRow(cache, k.layout, PhysicalPage(k, i, j),
             Cardinality(pending) % PageSize, SourceRow(k, c, i, j))

\* the effect of worker <<c, i, j>> on the buffer it copies into
WorkerWrite(cache, k, c, i, j) ==
    WriteRow(cache, k.layout, PhysicalPage(k, i, j), InPageOffset(k, i, j),
             SourceRow(k, c, i, j))

\* the copy of buffer c made by one worker after the other, in (i, j) order
RECURSIVE SeqCopy(_, _, _, _, _)
SeqCopy(cache, k, c, i, j) ==
    IF i >= BatchSize THEN cache
    ELSE IF j >= AppendLen(k, i) THEN SeqCopy(cache, k, c, i + 1, 0)
    ELSE SeqCopy(WorkerWrite(cache, k, c, i, j), k, c, i, j + 1)

\* KernelArgs with append_indptr and kv_indptr passed in each other's place
KernelArgsIndptrSwapped(a) ==
    [ append_key       |-> a.append_key,
      append_value     |-> a.append_value,
      append_indptr    |-> a.kv_indptr,
      kv_indices       |-> a.kv_indices,
      kv_indptr        |-> a.append_indptr,
      kv_last_page_len |-> a.kv_last_page_len,
      layout           |-> TensorLayoutValue(a.kv_layout),
      page_size        |-> PageSize ]

\* KernelArgs with kv_indptr passed for append_indptr as well
KernelArgsIndptrRepeated(a) ==
    [ append_key       |-> a.append_key,
      append_value     |-> a.append_value,
      append_indptr    |-> a.kv_indptr,
      kv_indices       |-> a.kv_indices,
      kv_indptr        |-> a.kv_indptr,
      kv_last_page_len |-> a.kv_last_page_len,
      layout           |-> TensorLayoutValue(a.kv_layout),
      page_size        |-> PageSize ]

\* KernelArgs with the layout value of NHD whatever kv_layout is
KernelArgsLayoutFixed(a) ==
    [ append_key       |-> a.append_key,
      append_value     |-> a.append_value,
      append_indptr    |-> a.append_indptr,
      kv_indices       |-> a.kv_indices,
      kv_indptr        |-> a.kv_indptr,
      kv_last_page_len |-> a.kv_last_page_len,
      layout           |-> TensorLayoutValue("NHD"),
      page_size        |-> PageSize ]

\* the parameters append_paged_kv_cache binds for the kernel
KernelArgs(a) ==
    [ append_key       |-> a.append_key,
      append_value     |-> a.append_value,
      append_indptr    |-> a.append_indptr,
      kv_indices       |-> a.kv_indices,
      kv_indptr        |-> a.kv_indptr,
      kv_last_page_len |-> a.kv_last_page_len,
      layout           |-> TensorLayoutValue(a.kv_layout),
      page_size        |-> PageSize ]

-----------------------------------------------------------------------------
(* get_page_module *)

moduleVars == <<page_module, has_prebuilt_ops, loads, returned, tpc, tmp, calls>>

\* if _page_module is None:
GpmTest(t) ==
    /\ tpc[t] = "gpm_test"
    /\ tpc' = [tpc EXCEPT ![t] = IF page_module = None THEN "gpm_load"
                                                       ELSE "gpm_return"]
    /\ UNCHANGED <<page_module, has_prebuilt_ops, loads, returned, tmp, calls>>
    /\ UNCHANGED appendVars

\* from . import _kernels, or load_cuda_ops("page", [...]): the import gives
\* the one module object; what load_cuda_ops gives on a repeated load (the
\* object of the first load, or a new one) is not decided by this file
GpmLoad(t) ==
    /\ tpc[t] = "gpm_load"
    /\ loads' = loads + 1
    /\ \E h \in (IF has_prebuilt_ops THEN {"_kernels"}
                                     ELSE {<<"page", 1>>, <<"page", loads + 1>>}) :
           tmp' = [tmp EXCEPT ![t] = h]
    /\ tpc' = [tpc EXCEPT ![t] = "gpm_store"]
    /\ UNCHANGED <<page_module, has_prebuilt_ops, returned, calls>>
    /\ UNCHANGED appendVars

\* _page_module = <the handle loaded>
GpmStore(t) ==
    /\ tpc[t] = "gpm_store"
    /\ page_module' = tmp[t]
    /\ tpc' = [tpc EXCEPT ![t] = "gpm_return"]
    /\ UNCHANGED <<has_prebuilt_ops, loads, returned, tmp, calls>>
    /\ UNCHANGED appendVars

\* return _page_module
GpmReturn(t) ==
    /\ tpc[t] = "gpm_return"
    /\ returned' = returned \cup {page_module}
    /\ tpc' = [tpc EXCEPT ![t] = "idle"]
    /\ pc' = IF t = Caller /\ pc = "get_module" THEN "kernel" ELSE pc
    /\ UNCHANGED <<page_module, has_prebuilt_ops, loads, tmp, calls>>
    /\ UNCHANGED <<args, result, unpacked, paged_k_cache,
                   paged_v_cache, pending, written>>

\* a thread calls get_page_module()
GetPageModule(t) ==
    /\ pc = "idle"
    /\ tpc[t] = "idle"
    /\ calls[t] < MaxCalls
    /\ calls' = [calls EXCEPT ![t] = @ + 1]
    /\ tpc' = [tpc EXCEPT ![t] = "gpm_test"]
    /\ UNCHANGED <<page_module, has_prebuilt_ops, loads, returned, tmp>>
    /\ UNCHANGED appendVars

-----------------------------------------------------------------------------
(* append_paged_kv_cache *)

\* the caller invokes append_paged_kv_cache(...)
AppendPagedKvCache ==
    /\ pc = "idle"
    /\ \A t \in Threads : tpc[t] = "idle" /\ calls[t] = 0
    /\ \E token \in LayoutTokens :
           \* well-formed offsets with any occupancies and append lengths
           \/ \E p \in AllocatedKvIndptrs, kind \in KvIndicesKinds,
                 a \in NondecreasingIndptrs(MaxNnz), l \in [Seqs -> LastPageLens] :
                   args' = Batch(a, a[BatchSize], p,
                                 KvIndices(kind, p[BatchSize]), l, token)
           \* an arbitrary append_indptr and row count
           \/ \E a \in [0 .. BatchSize -> 0 .. MaxNnz], nnz \in 0 .. MaxNnz :
                   args' = Batch(a, nnz, NominalKvIndptr, Arange(BatchSize),
                                 NominalLast, token)
           \* an arbitrary kv_indptr
           \/ \E p \in [0 .. BatchSize -> 0 .. MaxNumPages] :
                   args' = Batch([i \in 0 .. BatchSize |-> 0], 0, p,
                                 Arange(MaxNumPages), NominalLast, token)
    /\ pc' = "check_layout"
    /\ UNCHANGED <<result, unpacked, paged_k_cache, paged_v_cache,
                   pending, written>>
    /\ UNCHANGED moduleVars

\* CheckLayout without the call of _check_kv_layout
CheckLayoutOmitted ==
    /\ pc = "check_layout"
    /\ pc' = "eval_args"
    /\ UNCHANGED <<args, result, unpacked, paged_k_cache, paged_v_cache,
                   pending, written>>
    /\ UNCHANGED moduleVars

\* _check_kv_layout(kv_layout)
CheckLayout ==
    /\ pc = "check_layout"
    /\ IF CheckKvLayout(args.kv_layout)
       THEN pc' = "eval_args" /\ result' = result
       ELSE pc' = "done" /\ result' = "InvalidLayout"
    /\ UNCHANGED <<args, unpacked, paged_k_cache, paged_v_cache,
                   pending, written>>
    /\ UNCHANGED moduleVars

\* the arguments of the kernel call are evaluated: the cache is unpacked,
\* then TensorLayout[kv_layout] is looked up
EvalArgs ==
    /\ pc = "eval_args"
    /\ unpacked' = TRUE
    /\ IF args.kv_layout \in {"NHD", "HND"}
       THEN pc' = "get_module" /\ result' = result
            /\ tpc' = [tpc EXCEPT ![Caller] = "gpm_test"]
       ELSE pc' = "done" /\ result' = "KeyError"
            /\ tpc' = tpc
    /\ UNCHANGED <<args, paged_k_cache, paged_v_cache, pending, written>>
    /\ UNCHANGED <<page_module, has_prebuilt_ops, loads, returned, tmp, calls>>

\* get_page_module().append_paged_kv_cache(...): the kernel validates its
\* parameters before any destination write
Kernel ==
    /\ pc = "kernel"
    /\ LET e == Preflight(KernelArgs(args)) IN
         IF e = "none"
         THEN pc' = "copy" /\ result' = result
              /\ pending' = Workers(KernelArgs(args))
         ELSE pc' = "done" /\ result' = e /\ pending' = pending
    /\ UNCHANGED <<args, unpacked, paged_k_cache, paged_v_cache, written>>
    /\ UNCHANGED moduleVars

\* one copy worker runs: it copies its row, or it finds its position out of
\* range and the call is reported failed, the cache left as the workers that
\* ran before it wrote it
Worker(w) ==
    /\ pc = "copy"
    /\ w \in pending
    /\ pending' = pending \ {w}
    /\ LET kargs == KernelArgs(args)
           c == w[1]
           i == w[2]
           j == w[3]
       IN IF IndexOutOfRange(kargs, i, j)
          THEN /\ pc' = "done"
               /\ result' = "IndexOutOfRange"
               /\ UNCHANGED <<paged_k_cache, paged_v_cache, written>>
          ELSE /\ pc' = pc
               /\ result' = result
               /\ written' = written \cup
                    {[c |-> c, i |-> i, j |-> j,
                      row  |-> kargs.append_indptr[i] + j,
                      page |-> PhysicalPage(kargs, i, j),
                      slot |-> InPageOffset(kargs, i, j)]}
               /\ IF c = "k"
                  THEN /\ paged_k_cache' = WorkerWrite(paged_k_cache, kargs, c, i, j)
                       /\ paged_v_cache' = paged_v_cache
                  ELSE /\ paged_v_cache' = WorkerWrite(paged_v_cache, kargs, c, i, j)
                       /\ paged_k_cache' = paged_k_cache
    /\ UNCHANGED <<args, unpacked>>
    /\ UNCHANGED moduleVars

\* every worker has run: the call completes
Complete ==
    /\ pc = "copy"
    /\ pending = {}
    /\ pc' = "done"
    /\ result' = "ok"
    /\ UNCHANGED <<args, unpacked, paged_k_cache, paged_v_cache,
                   pending, written>>
    /\ UNCHANGED moduleVars

-----------------------------------------------------------------------------
(* Specifications *)

InitCommon ==
    /\ pc = "idle"
    /\ args = NoArgs
    /\ result = "none"
    /\ unpacked = FALSE
    /\ paged_k_cache = EmptyCache
    /\ paged_v_cache = EmptyCache
    /\ pending = {}
    /\ written = {}
    /\ page_module = None
    /\ loads = 0
    /\ returned = {}
    /\ tpc = [t \in Threads |-> "idle"]
    /\ tmp = [t \in Threads |-> None]
    /\ calls = [t \in Threads |-> 0]

\* the append call is followed on a build without prebuilt kernels
Init == InitCommon /\ has_prebuilt_ops = FALSE

InitModule == InitCommon /\ has_prebuilt_ops \in BOOLEAN

\* one caller makes one append call
Next ==
    \/ AppendPagedKvCache
    \/ CheckLayout
    \/ EvalArgs
    \/ GpmTest(Caller)
    \/ GpmLoad(Caller)
    \/ GpmStore(Caller)
    \/ GpmReturn(Caller)
    \/ Kernel
    \/ \E w \in pending : Worker(w)
    \/ Complete

Spec == Init /\ [][Next]_vars

\* several threads call get_page_module
NextModule ==
    \E t \in Threads :
        \/ GetPageModule(t)
        \/ GpmTest(t)
        \/ GpmLoad(t)
        \/ GpmStore(t)
        \/ GpmReturn(t)

SpecModule == InitModule /\ [][NextModule]_vars

-----------------------------------------------------------------------------
(* The statements checked, written on the caller's arguments *)

ClaimNumPages(i) == args.kv_indptr[i + 1] - args.kv_indptr[i]
ClaimCap(i) == (ClaimNumPages(i) - 1) * PageSize + args.kv_last_page_len[i]
ClaimLen(i) == args.append_indptr[i + 1] - args.append_indptr[i]
ClaimPos(i, j) == ClaimCap(i) - ClaimLen(i) + j
ClaimIndex(i, j) == args.kv_indptr[i] + ClaimPos(i, j) \div PageSize
ClaimPage(i, j) ==
    IF ClaimIndex(i, j) \in DOMAIN args.kv_indices
    THEN args.kv_indices[ClaimIndex(i, j)] ELSE -1
ClaimSlot(i, j) == ClaimPos(i, j) % PageSize
ClaimRows == { <<i, j>> \in Seqs \X (0 .. MaxNnz - 1) : j < ClaimLen(i) }

LayoutRecognised == args.kv_layout \in {"NHD", "HND"}

\* the offsets arrays are non-decreasing and start at 0, and append_indptr
\* ends at the number of ragged rows supplied
OffsetsWellFormed ==
    /\ WellFormedIndptr(args.append_indptr)
    /\ WellFormedIndptr(args.kv_indptr)
    /\ args.append_indptr[BatchSize] = Numel(args.append_key)
    /\ args.append_indptr[BatchSize] = Numel(args.append_value)

\* kv_indptr ends at the number of pages listed in kv_indices
PageTableComplete == args.kv_indptr[BatchSize] = Numel(args.kv_indices)

CapacitySufficient == \A i \in Seqs : ClaimLen(i) <= ClaimCap(i)

\* no physical page is listed twice in kv_indices
PagesExclusive ==
    \A m, n \in DOMAIN args.kv_indices :
        m # n => args.kv_indices[m] # args.kv_indices[n]

Called == pc # "idle"
Succeeded == pc = "done" /\ result = "ok"
CacheUntouched ==
    paged_k_cache = EmptyCache /\ paged_v_cache = EmptyCache /\ written = {}

CacheOf(c) == IF c = "k" THEN paged_k_cache ELSE paged_v_cache
SourceOf(c) == IF c = "k" THEN args.append_key ELSE args.append_value

\* the batch of the docstring's example: page size 16, append lengths
\* 45, 8, 25, 22, pages per request 3, 1, 2, 2, the first 8 pages
DocPageSize == 16
DocNumPages == 8
DocAppendIndptr == <<0, 45, 53, 78, 100>>
DocKvIndptr == <<0, 3, 4, 6, 8>>
DocLastPageLen == <<13, 8, 9, 6>>
DocBatch ==
    [ append_indptr    |-> [i \in 0 .. 4 |-> DocAppendIndptr[i + 1]],
      kv_indices       |-> Arange(DocNumPages),
      kv_indptr        |-> [i \in 0 .. 4 |-> DocKvIndptr[i + 1]],
      kv_last_page_len |-> [i \in 0 .. 3 |-> DocLastPageLen[i + 1]],
      page_size        |-> DocPageSize ]

\* in the documented batch every sequence is appended into fresh pages and
\* row j goes to (kv_indices[kv_indptr[i] + j / 16], j mod 16)
DocExampleDestinations ==
    \A i \in 0 .. 3 :
        /\ AppendLen(DocBatch, i) = Cap(DocBatch, i)
        /\ \A j \in 0 .. AppendLen(DocBatch, i) - 1 :
             /\ ~IndexOutOfRangeAt(DocBatch, i, j)
             /\ PhysicalPage(DocBatch, i, j) =
                  DocBatch.kv_indices[DocBatch.kv_indptr[i] + j \div DocPageSize]
             /\ InPageOffset(DocBatch, i, j) = j % DocPageSize

\* C1: every destination write made by append takes ragged source row
\* append_indptr[i]+j of a sequence i and local row j < append_len_i to
\* (kv_indices[kv_indptr[i] + pos / page_size], pos mod page_size) with
\* pos = cap_i - append_len_i + j; when append_len_i = cap_i that is
\* (kv_indices[kv_indptr[i] + j / page_size], j mod page_size); and a call
\* that succeeds has made the write of every row, for keys and for values.
C1_DestinationFormula ==
    /\ DocExampleDestinations
    /\ \A w \in written :
         /\ <<w.i, w.j>> \in ClaimRows
         /\ w.row = args.append_indptr[w.i] + w.j
         /\ w.page = ClaimPage(w.i, w.j)
         /\ w.slot = ClaimSlot(w.i, w.j)
         /\ ClaimLen(w.i) = ClaimCap(w.i) =>
              /\ w.page = args.kv_indices[args.kv_indptr[w.i] + w.j \div PageSize]
              /\ w.slot = w.j % PageSize
    /\ Succeeded =>
         \A c \in {"k", "v"}, r \in ClaimRows :
             \E w \in written : w.c = c /\ w.i = r[1] /\ w.j = r[2]

\* a call succeeded in which a row was appended behind rows already present
\* and a row went to the second page of its sequence
C1_Witness ==
    /\ Succeeded
    /\ \E w \in written : ClaimPos(w.i, 0) > 0 /\ ClaimPos(w.i, w.j) >= PageSize
    /\ \E w \in written : ClaimLen(w.i) = ClaimCap(w.i)

\* C2: after a successful append of a batch whose pages are exclusive, under
\* NHD and under HND, the key cache and the value cache read back at the
\* computed destination through the layout's shape hold, for every head and
\* dim, the source row append_indptr[i]+j.
C2_ReadBack ==
    (Succeeded /\ OffsetsWellFormed /\ PagesExclusive) =>
        \A c \in {"k", "v"}, r \in ClaimRows :
            ReadBack(CacheOf(c), args.kv_layout,
                     ClaimPage(r[1], r[2]), ClaimSlot(r[1], r[2]))
              = SourceOf(c)[args.append_indptr[r[1]] + r[2]]

\* a successful HND append with exclusive pages that wrote a row to slot 1
C2_Witness ==
    /\ Succeeded /\ PagesExclusive /\ args.kv_layout = "HND"
    /\ \E w \in written : w.slot = 1
    /\ Cardinality(ClaimRows) >= 2

C4_AsStated ==
    (pc = "done" /\ ~OffsetsWellFormed) =>
        (result = "MalformedIndex" /\ CacheUntouched)

\* C4: a call with a recognised layout whose append_indptr or kv_indptr is
\* not non-decreasing, or does not start at 0, or whose append_indptr does
\* not end at the number of ragged rows, is rejected with MalformedIndex and
\* leaves the key cache and the value cache as they were.
C4_MalformedRejected ==
    /\ (pc = "done" /\ LayoutRecognised /\ ~OffsetsWellFormed) =>
           result = "MalformedIndex"
    /\ (Called /\ ~OffsetsWellFormed) => CacheUntouched

\* a call with a recognised layout was rejected with MalformedIndex
C4_Witness ==
    /\ pc = "done" /\ result = "MalformedIndex"
    /\ ~WellFormedIndptr(args.append_indptr)

C6_InvalidLayout ==
    ~LayoutRecognised =>
        /\ pc \in {"idle", "check_layout", "done"}
        /\ pc = "done" => result = "InvalidLayout"
        /\ ~unpacked
        /\ tpc[Caller] = "idle" /\ loads = 0 /\ pending = {}
        /\ CacheUntouched

\* a call was rejected with InvalidLayout
C6_Witness == pc = "done" /\ result = "InvalidLayout" /\ ~LayoutRecognised

\* (page, slot) is the destination computed for some appended row
IsDestination(page, slot) ==
    \E r \in ClaimRows : ClaimPage(r[1], r[2]) = page /\ ClaimSlot(r[1], r[2]) = slot

ZeroRow == [h \in Heads |-> [d \in Dims |-> 0]]

FrameState ==
    /\ DOMAIN paged_k_cache = Pages /\ DOMAIN paged_v_cache = Pages
    /\ \A p \in Pages : /\ DOMAIN paged_k_cache[p] = 0 .. PageElems - 1
                        /\ DOMAIN paged_v_cache[p] = 0 .. PageElems - 1
    /\ Succeeded =>
         \A c \in {"k", "v"}, p \in Pages, s \in 0 .. PageSize - 1 :
             ~IsDestination(p, s) =>
                 ReadBack(CacheOf(c), args.kv_layout, p, s) = ZeroRow

\* C7: a successful append leaves every slot that is not a computed
\* destination with its value of before the call, in the key cache and in
\* the value cache; the caches keep their pages; and from the call on the
\* ragged batch, the offsets, the page table and the last-page lengths are
\* not changed.
C7_Frame ==
    /\ []FrameState
    /\ [][Called => args' = args]_vars

\* a successful append into a sequence that already held rows, with pages of
\* the cache that the page table does not name
C7_Witness ==
    /\ Succeeded
    /\ \E r \in ClaimRows : ClaimPos(r[1], 0) > 0
    /\ \E p \in Pages : \A n \in DOMAIN args.kv_indices : args.kv_indices[n] # p

\* C8: for a batch with exclusive pages, every worker that has not run can
\* run, whatever the others have done, and when the call has succeeded the
\* caches are those of the sequential execution in (i, j) order.
C8_ScheduleIndependent ==
    /\ pc = "copy" => \A w \in pending : ENABLED Worker(w)
    /\ (Succeeded /\ PagesExclusive) =>
         /\ paged_k_cache = SeqCopy(EmptyCache, KernelArgs(args), "k", 0, 0)
         /\ paged_v_cache = SeqCopy(EmptyCache, KernelArgs(args), "v", 0, 0)

\* a value worker of the last row ran first while all other workers were
\* still to run, in a batch with exclusive pages
C8_Witness ==
    /\ pc = "copy" /\ PagesExclusive
    /\ Cardinality(written) = 1
    /\ Cardinality(pending) >= 3
    /\ \E w \in written : w.c = "v" /\ w.i = BatchSize - 1

PositionsInRange ==
    \A r \in ClaimRows :
        /\ ClaimPos(r[1], r[2]) >= 0
        /\ ClaimPos(r[1], r[2]) \div PageSize < ClaimNumPages(r[1])

\* C9 as stated: with well-formed offsets, at least one page per sequence
\* and sufficient capacity, every position is in range and IndexOutOfRange
\* is never triggered.
C9_AsStated ==
    (Called /\ OffsetsWellFormed /\ CapacitySufficient
       /\ \A i \in Seqs : ClaimNumPages(i) >= 1) =>
        (PositionsInRange /\ result # "IndexOutOfRange")

\* C9: with well-formed offsets, at least one page per sequence, sufficient
\* capacity and kv_last_page_len[i] <= page_size for every i, every position
\* pos = cap_i - append_len_i + j satisfies pos >= 0 and
\* pos / page_size < num_pages_i, and IndexOutOfRange is never triggered.
C9_IndexInRange ==
    (Called /\ OffsetsWellFormed /\ CapacitySufficient
       /\ (\A i \in Seqs : ClaimNumPages(i) >= 1)
       /\ (\A i \in Seqs : args.kv_last_page_len[i] <= PageSize)) =>
        (PositionsInRange /\ result # "IndexOutOfRange")

\* a successful append that filled the last slot of a sequence's last page
C9_Witness ==
    /\ Succeeded
    /\ \A i \in Seqs : args.kv_last_page_len[i] <= PageSize
    /\ \E w \in written :
         /\ w.slot = PageSize - 1
         /\ ClaimPos(w.i, w.j) \div PageSize = ClaimNumPages(w.i) - 1
         /\ ClaimNumPages(w.i) = 2

\* C10: the backend is selected or loaded at most once, every call of
\* get_page_module returns the same handle, and the handle, once set, is
\* the one that stays.
C10_InitialisedOnce ==
    /\ loads <= 1
    /\ Cardinality(returned) <= 1
    /\ \A t \in Threads :
         (tpc[t] = "gpm_store" /\ page_module # None) => tmp[t] = page_module

====
